---------------------------- MODULE Spec2Model ----------------------------
(* Model of the discrete-event simulator of Katletos/saimod:               *)
(*   src/src/simulation.rs  Simulation (with_config, run, reset_metrics,   *)
(*                          process_tick, generate_new_events, result_of)  *)
(*   src/src/main.rs        task_3_1 (parallel independent replications)   *)
(* One Simulation and the activation record of its run() call are the      *)
(* variables sim and frame; the random draws of thread_rng() are the       *)
(* nondeterministic choices of the actions.                                *)
EXTENDS Integers, Sequences, FiniteSets, TLC

VARIABLES
    sim,     \* the Simulation
    frame,   \* the activation record of its run()
    hist,    \* the history of the Simulation (not program state)
    sims,    \* task_3_1: the Simulation of every replication, once built
    rep,     \* task_3_1: the state of every replication closure
    task,    \* task_3_1: its position and local variables
    order    \* task_3_1: the replications in the order they completed (history)

vars == <<sim, frame, hist, sims, rep, task, order>>

-----------------------------------------------------------------------------
(* Bounds of the model                                                     *)

MaxTime == 3
MaxRuns == 2
MaxTables == 2
MaxWorkers == 1
MaxDuration == 2
ParTotal == 2
ParTime == 2

-----------------------------------------------------------------------------
(* Events (enum Event of the crate, used by simulation.rs)                 *)

Enter(arrival_time) == [type |-> "Enter", arrival_time |-> arrival_time]

WaitingForWorker(start_time, leave_time, is_first_time) ==
    [type |-> "WaitingForWorker", start_time |-> start_time,
     leave_time |-> leave_time, is_first_time |-> is_first_time]

WorkerWalkingDance(free_worker_time) ==
    [type |-> "WorkerWalkingDance", free_worker_time |-> free_worker_time]

WaitingForFood(finish_food_time) ==
    [type |-> "WaitingForFood", finish_food_time |-> finish_food_time]

ConsumeFood(end_consume_time) ==
    [type |-> "ConsumeFood", end_consume_time |-> end_consume_time]

-----------------------------------------------------------------------------
(* Random draws of thread_rng()                                            *)

\* gen_range(lo..hi): any value of the half-open range
gen_range(range) == range[1] .. (range[2] - 1)

\* gen_bool(p), p in percent: true is possible iff p > 0, false iff p < 100
gen_bool(p) == {b \in BOOLEAN : (b => p > 0) /\ (~b => p < 100)}

\* the patience of a newly seated client, gen_range(5..10)
FirstWaitRange == <<5, 10>>

\* the patience of a client who orders again, gen_range(1..3)
RepeatWaitRange == <<1, 3>>

\* gen_bool(0.2): the client wants more
WantMorePercent == 20

-----------------------------------------------------------------------------
(* Option<SimulationTick>                                                  *)

None == <<>>
Some(v) == <<v>>
unwrap_or(opt, default) == IF opt = None THEN default ELSE opt[1]

-----------------------------------------------------------------------------
(* Configurations the model is run with: every table and worker count up  *)
(* to the bounds, arrivals that are random (50%) or certain (100%). The    *)
(* log does not influence the simulation; it is enabled in the             *)
(* configurations with random arrivals.                                    *)

AllConfigs ==
    [max_time : {MaxTime},
     tables : 0 .. MaxTables,
     workers : 0 .. MaxWorkers,
     client_ratio : {50, 100},
     use_logs : BOOLEAN,
     dancing_time : {<<0, MaxDuration + 1>>},
     production_time : {<<1, MaxDuration + 1>>},
     consumption_time : {<<1, MaxDuration + 1>>}]

Configs == {config \in AllConfigs : config.use_logs = (config.client_ratio < 100)}

-----------------------------------------------------------------------------
(* with_config starting with no free table                                 *)
with_config_no_free_table(config) ==
    [t_max_time |-> config.max_time,
     available_tables |-> 0,
     available_workers |-> config.workers,
     config |-> config,
     events |-> <<>>,
     average_worker_waiting_time |-> <<0, 0>>,
     average_order_time |-> <<0, 0>>,
     average_busy_tables |-> <<0, 0>>,
     average_free_workers |-> <<0, 0>>,
     average_consumption_time |-> <<0, 0>>,
     average_worker_waiting_time_pre |-> 0,
     average_order_time_pre |-> 0,
     average_consumption_time_pre |-> 0,
     average_busy_tables_pre |-> 0,
     average_free_workers_pre |-> 0,
     not_dispatched_clients |-> 0,
     dispatched_clients_count |-> 0,
     immediately_left_clients_count |-> 0,
     world_time |-> None]

(* Simulation::with_config                                                 *)

with_config(config) ==
    [t_max_time |-> config.max_time,
     available_tables |-> config.tables,
     available_workers |-> config.workers,
     config |-> config,
     events |-> <<>>,
     average_worker_waiting_time |-> <<0, 0>>,
     average_order_time |-> <<0, 0>>,
     average_busy_tables |-> <<0, 0>>,
     average_free_workers |-> <<0, 0>>,
     average_consumption_time |-> <<0, 0>>,
     average_worker_waiting_time_pre |-> 0,
     average_order_time_pre |-> 0,
     average_consumption_time_pre |-> 0,
     average_busy_tables_pre |-> 0,
     average_free_workers_pre |-> 0,
     not_dispatched_clients |-> 0,
     dispatched_clients_count |-> 0,
     immediately_left_clients_count |-> 0,
     world_time |-> None]

(* reset_metrics forgetting the occupancy accumulators and the counters    *)
reset_metrics_keeps_counts(s) ==
    [s EXCEPT !.average_worker_waiting_time = <<0, 0>>,
              !.average_order_time = <<0, 0>>,
              !.average_consumption_time = <<0, 0>>,
              !.average_worker_waiting_time_pre = 0,
              !.average_order_time_pre = 0,
              !.average_consumption_time_pre = 0,
              !.average_busy_tables_pre = 0,
              !.average_free_workers_pre = 0]

(* reset_metrics that also empties the event queue                         *)
reset_metrics_drops_events(s) ==
    [s EXCEPT !.average_worker_waiting_time = <<0, 0>>,
              !.average_order_time = <<0, 0>>,
              !.average_consumption_time = <<0, 0>>,
              !.average_busy_tables = <<0, 0>>,
              !.average_free_workers = <<0, 0>>,
              !.average_worker_waiting_time_pre = 0,
              !.average_order_time_pre = 0,
              !.average_consumption_time_pre = 0,
              !.average_busy_tables_pre = 0,
              !.average_free_workers_pre = 0,
              !.not_dispatched_clients = 0,
              !.dispatched_clients_count = 0,
              !.immediately_left_clients_count = 0,
              !.events = <<>>]

(* Simulation::reset_metrics                                               *)

reset_metrics(s) ==
    [s EXCEPT !.average_worker_waiting_time = <<0, 0>>,
              !.average_order_time = <<0, 0>>,
              !.average_consumption_time = <<0, 0>>,
              !.average_busy_tables = <<0, 0>>,
              !.average_free_workers = <<0, 0>>,
              !.average_worker_waiting_time_pre = 0,
              !.average_order_time_pre = 0,
              !.average_consumption_time_pre = 0,
              !.average_busy_tables_pre = 0,
              !.average_free_workers_pre = 0,
              !.not_dispatched_clients = 0,
              !.dispatched_clients_count = 0,
              !.immediately_left_clients_count = 0]

-----------------------------------------------------------------------------
(* result_of: the averages are f32 quotients sum / count, kept here as     *)
(* reduced fractions <<numerator, denominator>>; 0.0 / 0 is NaN = <<0, 0>> *)

RECURSIVE gcd(_, _)
gcd(a, b) == IF b = 0 THEN a ELSE gcd(b, a % b)

f32_div(sum, count) ==
    LET g == gcd(sum, count)
    IN  IF g = 0 THEN <<0, 0>> ELSE <<sum \div g, count \div g>>

result_of(s) ==
    [average_consumption_time |->
        f32_div(s.average_consumption_time[1], s.average_consumption_time[2]),
     average_worker_waiting_time |->
        f32_div(s.average_worker_waiting_time[1], s.average_worker_waiting_time[2]),
     average_order_time |->
        f32_div(s.average_order_time[1], s.average_order_time[2]),
     average_busy_tables |->
        f32_div(s.average_busy_tables[1], s.average_busy_tables[2]),
     average_free_workers |->
        f32_div(s.average_free_workers[1], s.average_free_workers[2]),
     dispatched_clients |-> <<s.dispatched_clients_count, 1>>,
     not_dispatched_clients |-> <<s.not_dispatched_clients, 1>>,
     immediately_left_clients_count |-> <<s.immediately_left_clients_count, 1>>]

partial_result(s) == result_of(s)

-----------------------------------------------------------------------------
(* Log (history.rs): an ordered sequence of (tick offset, Results)         *)

Log_empty == <<>>

Log_append(log, offset, part_results) == Append(log, <<offset, part_results>>)

-----------------------------------------------------------------------------
(* The activation record of run(): pc is the position in run() and in the  *)
(* process_tick() it calls, new_events the local queue of process_tick,    *)
(* ret the value returned by the last completed call.                      *)

NoFrame ==
    [pc |-> "idle", tick |-> 0, start_time |-> 0, end_time |-> 0,
     new_events |-> <<>>, log |-> Log_empty, ret |-> <<>>]

St(s, f) == [sim |-> s, frame |-> f]

(* run() starting every call at tick 0                                     *)
run_begin_from_zero(s, f) ==
    LET start_time == 0
        end_time == start_time + s.t_max_time
    IN  St([s EXCEPT !.world_time = Some(end_time)],
           [f EXCEPT !.pc = "loop", !.log = Log_empty,
                     !.start_time = start_time, !.end_time = end_time,
                     !.tick = start_time])

(* run(), lines 67-72: the clock is advanced before the loop starts        *)
run_begin(s, f) ==
    LET start_time == unwrap_or(s.world_time, 0)
        end_time == start_time + s.t_max_time
    IN  St([s EXCEPT !.world_time = Some(end_time)],
           [f EXCEPT !.pc = "loop", !.log = Log_empty,
                     !.start_time = start_time, !.end_time = end_time,
                     !.tick = start_time])

(* generate_new_events putting the arrival at the front of the queue       *)
generate_new_events_at_front(s, tick, is_client_arrived) ==
    IF is_client_arrived
    THEN [s EXCEPT !.events = <<Enter(tick)>> \o @]
    ELSE s

(* generate_new_events(tick)                                               *)
generate_new_events(s, tick, is_client_arrived) ==
    IF is_client_arrived
    THEN [s EXCEPT !.events = Append(@, Enter(tick))]
    ELSE s

(* run(), line 76, and the entry of process_tick, line 107                 *)
run_generate(s, f) ==
    {St(generate_new_events(s, f.tick, is_client_arrived),
        [f EXCEPT !.pc = "process", !.new_events = <<>>]) :
       is_client_arrived \in gen_bool(s.config.client_ratio)}

(* process_tick, one iteration of the while loop for each kind of event;   *)
(* s is the simulation after pop_front, q the local queue new_events       *)

(* process_Enter seating a client when available_tables >= 0               *)
process_Enter_off_by_one(s, q, time, event) ==
    IF s.available_tables >= 0
    THEN {[sim |-> [s EXCEPT !.available_tables = @ - 1],
           new_events |-> Append(q, WaitingForWorker(time, d + time, TRUE)),
           panic |-> FALSE] : d \in gen_range(FirstWaitRange)}
    ELSE {[sim |-> [s EXCEPT !.immediately_left_clients_count = @ + 1],
           new_events |-> q, panic |-> FALSE]}

(* process_Enter with a client who, finding no free table, waits at the    *)
(* door: the arrival is enqueued again                                     *)
process_Enter_waits_for_table(s, q, time, event) ==
    IF s.available_tables > 0
    THEN {[sim |-> [s EXCEPT !.available_tables = @ - 1],
           new_events |-> Append(q, WaitingForWorker(time, d + time, TRUE)),
           panic |-> FALSE] : d \in gen_range(FirstWaitRange)}
    ELSE {[sim |-> s, new_events |-> Append(q, event), panic |-> FALSE]}

process_Enter(s, q, time, event) ==
    IF s.available_tables > 0
    THEN {[sim |-> [s EXCEPT !.available_tables = @ - 1],
           new_events |-> Append(q, WaitingForWorker(time, d + time, TRUE)),
           panic |-> FALSE] : d \in gen_range(FirstWaitRange)}
    ELSE {[sim |-> [s EXCEPT !.immediately_left_clients_count = @ + 1],
           new_events |-> q, panic |-> FALSE]}

(* process_WaitingForWorker with a timeout that does not give the table   *)
(* back                                                                    *)
process_WaitingForWorker_table_lost(s, q, time, event) ==
    IF event.leave_time <= time
    THEN {[sim |-> [s EXCEPT
                      !.average_worker_waiting_time =
                          <<@[1] + (event.leave_time - event.start_time), @[2] + 1>>,
                      !.not_dispatched_clients =
                          IF event.is_first_time THEN @ + 1 ELSE @],
           new_events |-> q, panic |-> FALSE]}
    ELSE IF s.available_workers > 0
    THEN {[sim |-> [s EXCEPT
                      !.available_workers = @ - 1,
                      !.average_worker_waiting_time =
                          <<@[1] + (time - event.start_time), @[2] + 1>>],
           new_events |-> Append(q, WorkerWalkingDance(d + time)),
           panic |-> FALSE] : d \in gen_range(s.config.dancing_time)}
    ELSE {[sim |-> s,
           new_events |-> Append(q, WaitingForWorker(event.start_time,
                                     event.leave_time, event.is_first_time)),
           panic |-> FALSE]}

(* process_WaitingForWorker granting a worker without taking it from the   *)
(* pool                                                                    *)
process_WaitingForWorker_worker_kept(s, q, time, event) ==
    IF event.leave_time <= time
    THEN {[sim |-> [s EXCEPT
                      !.available_tables = @ + 1,
                      !.average_worker_waiting_time =
                          <<@[1] + (event.leave_time - event.start_time), @[2] + 1>>,
                      !.not_dispatched_clients =
                          IF event.is_first_time THEN @ + 1 ELSE @],
           new_events |-> q, panic |-> FALSE]}
    ELSE IF s.available_workers > 0
    THEN {[sim |-> [s EXCEPT
                      !.average_worker_waiting_time =
                          <<@[1] + (time - event.start_time), @[2] + 1>>],
           new_events |-> Append(q, WorkerWalkingDance(d + time)),
           panic |-> FALSE] : d \in gen_range(s.config.dancing_time)}
    ELSE {[sim |-> s,
           new_events |-> Append(q, WaitingForWorker(event.start_time,
                                     event.leave_time, event.is_first_time)),
           panic |-> FALSE]}

(* process_WaitingForWorker with a client who leaves only after the        *)
(* deadline has passed: leave_time < time                                  *)
process_WaitingForWorker_leaves_late(s, q, time, event) ==
    IF event.leave_time < time
    THEN {[sim |-> [s EXCEPT
                      !.available_tables = @ + 1,
                      !.average_worker_waiting_time =
                          <<@[1] + (event.leave_time - event.start_time), @[2] + 1>>,
                      !.not_dispatched_clients =
                          IF event.is_first_time THEN @ + 1 ELSE @],
           new_events |-> q, panic |-> FALSE]}
    ELSE IF s.available_workers > 0
    THEN {[sim |-> [s EXCEPT
                      !.available_workers = @ - 1,
                      !.average_worker_waiting_time =
                          <<@[1] + (time - event.start_time), @[2] + 1>>],
           new_events |-> Append(q, WorkerWalkingDance(d + time)),
           panic |-> FALSE] : d \in gen_range(s.config.dancing_time)}
    ELSE {[sim |-> s,
           new_events |-> Append(q, WaitingForWorker(event.start_time,
                                     event.leave_time, event.is_first_time)),
           panic |-> FALSE]}

(* process_WaitingForWorker serving a client whose deadline has passed     *)
(* when a worker is free: service before timeout                           *)
process_WaitingForWorker_service_first(s, q, time, event) ==
    IF s.available_workers > 0
    THEN {[sim |-> [s EXCEPT
                      !.available_workers = @ - 1,
                      !.average_worker_waiting_time =
                          <<@[1] + (time - event.start_time), @[2] + 1>>],
           new_events |-> Append(q, WorkerWalkingDance(d + time)),
           panic |-> FALSE] : d \in gen_range(s.config.dancing_time)}
    ELSE IF event.leave_time <= time
    THEN {[sim |-> [s EXCEPT
                      !.available_tables = @ + 1,
                      !.average_worker_waiting_time =
                          <<@[1] + (event.leave_time - event.start_time), @[2] + 1>>,
                      !.not_dispatched_clients =
                          IF event.is_first_time THEN @ + 1 ELSE @],
           new_events |-> q, panic |-> FALSE]}
    ELSE {[sim |-> s,
           new_events |-> Append(q, WaitingForWorker(event.start_time,
                                     event.leave_time, event.is_first_time)),
           panic |-> FALSE]}

(* process_WaitingForWorker with a blocked client whose wait starts again  *)
(* at the tick of the evaluation                                           *)
process_WaitingForWorker_restarts_wait(s, q, time, event) ==
    IF event.leave_time <= time
    THEN {[sim |-> [s EXCEPT
                      !.available_tables = @ + 1,
                      !.average_worker_waiting_time =
                          <<@[1] + (event.leave_time - event.start_time), @[2] + 1>>,
                      !.not_dispatched_clients =
                          IF event.is_first_time THEN @ + 1 ELSE @],
           new_events |-> q, panic |-> FALSE]}
    ELSE IF s.available_workers > 0
    THEN {[sim |-> [s EXCEPT
                      !.available_workers = @ - 1,
                      !.average_worker_waiting_time =
                          <<@[1] + (time - event.start_time), @[2] + 1>>],
           new_events |-> Append(q, WorkerWalkingDance(d + time)),
           panic |-> FALSE] : d \in gen_range(s.config.dancing_time)}
    ELSE {[sim |-> s,
           new_events |-> Append(q, WaitingForWorker(time,
                                     event.leave_time, event.is_first_time)),
           panic |-> FALSE]}

process_WaitingForWorker(s, q, time, event) ==
    IF event.leave_time <= time
    THEN {[sim |-> [s EXCEPT
                      !.available_tables = @ + 1,
                      !.average_worker_waiting_time =
                          <<@[1] + (event.leave_time - event.start_time), @[2] + 1>>,
                      !.not_dispatched_clients =
                          IF event.is_first_time THEN @ + 1 ELSE @],
           new_events |-> q, panic |-> FALSE]}
    ELSE IF s.available_workers > 0
    THEN {[sim |-> [s EXCEPT
                      !.available_workers = @ - 1,
                      !.average_worker_waiting_time =
                          <<@[1] + (time - event.start_time), @[2] + 1>>],
           new_events |-> Append(q, WorkerWalkingDance(d + time)),
           panic |-> FALSE] : d \in gen_range(s.config.dancing_time)}
    ELSE {[sim |-> s,
           new_events |-> Append(q, WaitingForWorker(event.start_time,
                                     event.leave_time, event.is_first_time)),
           panic |-> FALSE]}

(* process_WorkerWalkingDance with a worker who stays with the client     *)
(* after the walk: no release when the event completes                     *)
process_WorkerWalkingDance_keeps_worker(s, q, time, event) ==
    IF time >= event.free_worker_time
    THEN {[sim |-> [s EXCEPT !.average_order_time =
                             <<@[1] + producing_time, @[2] + 1>>],
           new_events |-> Append(q, WaitingForFood(producing_time + time)),
           panic |-> FALSE] :
             producing_time \in gen_range(s.config.production_time)}
    ELSE {[sim |-> s,
           new_events |-> <<WorkerWalkingDance(event.free_worker_time)>> \o q,
           panic |-> FALSE]}

process_WorkerWalkingDance(s, q, time, event) ==
    IF time >= event.free_worker_time
    THEN LET freed == [s EXCEPT !.available_workers = @ + 1]
         IN  IF ~(freed.available_workers <= freed.config.workers)
             THEN {[sim |-> freed, new_events |-> q, panic |-> TRUE]}
             ELSE {[sim |-> [freed EXCEPT !.average_order_time =
                                      <<@[1] + producing_time, @[2] + 1>>],
                    new_events |-> Append(q, WaitingForFood(producing_time + time)),
                    panic |-> FALSE] :
                      producing_time \in gen_range(s.config.production_time)}
    ELSE {[sim |-> s,
           new_events |-> <<WorkerWalkingDance(event.free_worker_time)>> \o q,
           panic |-> FALSE]}

(* process_WaitingForFood enqueueing food that is not ready at the back    *)
process_WaitingForFood_to_back(s, q, time, event) ==
    IF time >= event.finish_food_time
    THEN {[sim |-> [s EXCEPT !.average_consumption_time =
                          <<@[1] + consumption_time, @[2] + 1>>],
           new_events |-> Append(q, ConsumeFood(consumption_time + time)),
           panic |-> FALSE] :
             consumption_time \in gen_range(s.config.consumption_time)}
    ELSE {[sim |-> s,
           new_events |-> Append(q, WaitingForFood(event.finish_food_time)),
           panic |-> FALSE]}

process_WaitingForFood(s, q, time, event) ==
    IF time >= event.finish_food_time
    THEN {[sim |-> [s EXCEPT !.average_consumption_time =
                          <<@[1] + consumption_time, @[2] + 1>>],
           new_events |-> Append(q, ConsumeFood(consumption_time + time)),
           panic |-> FALSE] :
             consumption_time \in gen_range(s.config.consumption_time)}
    ELSE {[sim |-> s,
           new_events |-> <<WaitingForFood(event.finish_food_time)>> \o q,
           panic |-> FALSE]}

(* process_ConsumeFood enqueueing an unfinished meal at the front          *)
process_ConsumeFood_to_front(s, q, time, event) ==
    IF time >= event.end_consume_time
    THEN UNION {
           IF we_want_eat_more
           THEN {[sim |-> s,
                  new_events |-> Append(q, WaitingForWorker(time, d + time, FALSE)),
                  panic |-> FALSE] : d \in gen_range(RepeatWaitRange)}
           ELSE {[sim |-> [s EXCEPT !.dispatched_clients_count = @ + 1,
                                    !.available_tables = @ + 1],
                  new_events |-> q, panic |-> FALSE]} :
           we_want_eat_more \in gen_bool(WantMorePercent)}
    ELSE {[sim |-> s,
           new_events |-> <<ConsumeFood(event.end_consume_time)>> \o q,
           panic |-> FALSE]}

(* process_ConsumeFood counting a client who orders again as dispatched    *)
process_ConsumeFood_counts_reorder(s, q, time, event) ==
    IF time >= event.end_consume_time
    THEN UNION {
           IF we_want_eat_more
           THEN {[sim |-> [s EXCEPT !.dispatched_clients_count = @ + 1],
                  new_events |-> Append(q, WaitingForWorker(time, d + time, FALSE)),
                  panic |-> FALSE] : d \in gen_range(RepeatWaitRange)}
           ELSE {[sim |-> [s EXCEPT !.dispatched_clients_count = @ + 1,
                                    !.available_tables = @ + 1],
                  new_events |-> q, panic |-> FALSE]} :
           we_want_eat_more \in gen_bool(WantMorePercent)}
    ELSE {[sim |-> s,
           new_events |-> Append(q, ConsumeFood(event.end_consume_time)),
           panic |-> FALSE]}

process_ConsumeFood(s, q, time, event) ==
    IF time >= event.end_consume_time
    THEN UNION {
           IF we_want_eat_more
           THEN {[sim |-> s,
                  new_events |-> Append(q, WaitingForWorker(time, d + time, FALSE)),
                  panic |-> FALSE] : d \in gen_range(RepeatWaitRange)}
           ELSE {[sim |-> [s EXCEPT !.dispatched_clients_count = @ + 1,
                                    !.available_tables = @ + 1],
                  new_events |-> q, panic |-> FALSE]} :
           we_want_eat_more \in gen_bool(WantMorePercent)}
    ELSE {[sim |-> s,
           new_events |-> Append(q, ConsumeFood(event.end_consume_time)),
           panic |-> FALSE]}

process_match(s, q, time, event) ==
    CASE event.type = "Enter" -> process_Enter(s, q, time, event)
      [] event.type = "WaitingForWorker" -> process_WaitingForWorker(s, q, time, event)
      [] event.type = "WorkerWalkingDance" -> process_WorkerWalkingDance(s, q, time, event)
      [] event.type = "WaitingForFood" -> process_WaitingForFood(s, q, time, event)
      [] event.type = "ConsumeFood" -> process_ConsumeFood(s, q, time, event)

(* process_tick sampling the occupancy once per event                      *)
process_event_sampling(s, f) ==
    LET event == Head(s.events)
        popped == [s EXCEPT !.events = Tail(@)]
    IN  {St([o.sim EXCEPT
               !.average_busy_tables =
                   <<@[1] + (o.sim.config.tables - o.sim.available_tables), @[2] + 1>>,
               !.average_free_workers = <<@[1] + o.sim.available_workers, @[2] + 1>>],
            [f EXCEPT !.new_events = o.new_events,
                      !.pc = IF o.panic THEN "panic" ELSE "process"]) :
           o \in process_match(popped, f.new_events, f.tick, event)}

(* process_tick evaluating a successor that is already due in the same     *)
(* tick: a walk granted with duration 0 goes to the back of the queue      *)
(* being drained                                                           *)
process_event_due_at_once(s, f) ==
    LET event == Head(s.events)
        popped == [s EXCEPT !.events = Tail(@)]
    IN  {LET q2 == o.new_events
             created == /\ Len(q2) > Len(f.new_events)
                        /\ event.type = "WaitingForWorker"
                        /\ q2[Len(q2)].type = "WorkerWalkingDance"
                        /\ q2[Len(q2)].free_worker_time <= f.tick
         IN  St(IF created
                THEN [o.sim EXCEPT !.events = Append(@, q2[Len(q2)])]
                ELSE o.sim,
                [f EXCEPT !.new_events = IF created THEN f.new_events ELSE q2,
                          !.pc = IF o.panic THEN "panic" ELSE "process"]) :
           o \in process_match(popped, f.new_events, f.tick, event)}

(* process_tick, lines 109-220: pop_front and the match on the event       *)
process_event(s, f) ==
    LET event == Head(s.events)
        popped == [s EXCEPT !.events = Tail(@)]
    IN  {St(o.sim,
            [f EXCEPT !.new_events = o.new_events,
                      !.pc = IF o.panic THEN "panic" ELSE "process"]) :
           o \in process_match(popped, f.new_events, f.tick, event)}

(* process_tick, lines 222-230: the occupancy sample and the queue swap;   *)
(* config.tables - available_tables is a u32 subtraction, which aborts the *)
(* run when it underflows (overflow checks on)                             *)
process_tick_end(s, f) ==
    IF s.config.tables < s.available_tables
    THEN St(s, [f EXCEPT !.pc = "panic"])
    ELSE LET busy_tables == s.config.tables - s.available_tables
         IN  St([s EXCEPT
                   !.average_busy_tables = <<@[1] + busy_tables, @[2] + 1>>,
                   !.average_free_workers = <<@[1] + s.available_workers, @[2] + 1>>,
                   !.events = f.new_events],
                [f EXCEPT !.new_events = <<>>, !.pc = "log"])

(* run() logging the absolute tick                                         *)
run_log_absolute_tick(s, f) ==
    St(s, [f EXCEPT
             !.log = IF s.config.use_logs
                     THEN Log_append(@, f.tick, partial_result(s))
                     ELSE @,
             !.tick = @ + 1,
             !.pc = "loop"])

(* run(), lines 79-83: the snapshot of the tick and the loop increment     *)
run_log(s, f) ==
    St(s, [f EXCEPT
             !.log = IF s.config.use_logs
                     THEN Log_append(@, f.tick - f.start_time, partial_result(s))
                     ELSE @,
             !.tick = @ + 1,
             !.pc = "loop"])

(* run(), line 85                                                          *)
run_return(s, f) ==
    St(s, [f EXCEPT !.ret = <<result_of(s), f.log>>, !.pc = "idle"])

-----------------------------------------------------------------------------
(* The history of one Simulation (not program state): the number of run()  *)
(* calls and resets, the ticks processed in all and since the last reset,  *)
(* the position of the current call among the calls since the last reset,  *)
(* the ticks generated and processed and the clients counted in the        *)
(* current call; and of the tick being processed (or just processed): the  *)
(* length of the queue it started with, the number of events evaluated,    *)
(* what the last evaluated event was and did, and for every event of the   *)
(* new queue a tag: the position in the old queue of the event whose        *)
(* evaluation enqueued it, and whether it is that same event, enqueued      *)
(* again; and the number of arrivals generated since the last reset.       *)

NoLast == [type |-> "none", due |-> FALSE, free |-> FALSE, outcome |-> "none"]

NoHist ==
    [calls |-> 0, resets |-> 0, ticks |-> 0, since_reset |-> 0,
     call_seq |-> 0, just_returned |-> FALSE,
     call_generated |-> <<>>, call_ticks |-> <<>>,
     call_dispatched |-> 0, call_not_dispatched |-> 0, call_left |-> 0,
     queued |-> 0, evaluated |-> 0, tags |-> <<>>, last |-> NoLast,
     arrivals |-> 0]

\* the tick an event carries: the tick it is due at
Stored(event) ==
    CASE event.type = "Enter" -> event.arrival_time
      [] event.type = "WaitingForWorker" -> event.leave_time
      [] event.type = "WorkerWalkingDance" -> event.free_worker_time
      [] event.type = "WaitingForFood" -> event.finish_food_time
      [] event.type = "ConsumeFood" -> event.end_consume_time

\* what the evaluation of the head of s.events did, read off the queues
\* before (q) and after (q2) it. When q holds nothing but copies of the
\* pushed event the two ends of q2 cannot be told apart by value: the tag
\* then goes to the end the code pushes that event to, the front for a
\* WorkerWalkingDance or WaitingForFood enqueued again (lines 177, 196),
\* the back otherwise.
HistEvent(h, s, q, q2, time) ==
    LET event == Head(s.events)
        pushed == Len(q2) > Len(q)
        fits_back == pushed /\ SubSeq(q2, 1, Len(q)) = q
        fits_front == pushed /\ SubSeq(q2, 2, Len(q2)) = q
        carried == /\ fits_front
                   /\ q2[1] = event
                   /\ event.type \in {"WorkerWalkingDance", "WaitingForFood"}
        at_back == fits_back /\ ~carried
        x == IF at_back THEN q2[Len(q2)] ELSE q2[1]
        tag == [from |-> h.evaluated + 1, same |-> (x = event)]
    IN  [h EXCEPT
           !.evaluated = @ + 1,
           !.tags = IF ~pushed THEN @
                    ELSE IF at_back THEN Append(@, tag)
                    ELSE <<tag>> \o @,
           !.last = [type |-> event.type,
                     due |-> Stored(event) <= time,
                     free |-> s.available_workers > 0,
                     outcome |-> IF ~pushed THEN "gone"
                                 ELSE IF x = event THEN "kept"
                                 ELSE "next"]]

HistCount(h, s, s2) ==
    [h EXCEPT
       !.call_dispatched = @ + (s2.dispatched_clients_count - s.dispatched_clients_count),
       !.call_not_dispatched = @ + (s2.not_dispatched_clients - s.not_dispatched_clients),
       !.call_left = @ + (s2.immediately_left_clients_count
                            - s.immediately_left_clients_count)]

-----------------------------------------------------------------------------
(* Actions of one Simulation                                               *)

parUnchanged == UNCHANGED <<sims, rep, task, order>>

Run ==
    /\ frame.pc = "idle"
    /\ hist.calls < MaxRuns
    /\ LET n == run_begin(sim, frame)
       IN  /\ sim' = n.sim
           /\ frame' = n.frame
    /\ hist' = [hist EXCEPT !.calls = @ + 1,
                            !.call_seq = IF hist.since_reset = 0 THEN 1 ELSE @ + 1,
                            !.just_returned = FALSE,
                            !.call_generated = <<>>, !.call_ticks = <<>>,
                            !.call_dispatched = 0, !.call_not_dispatched = 0,
                            !.call_left = 0]
    /\ parUnchanged

ResetMetrics ==
    /\ frame.pc = "idle"
    /\ sim' = reset_metrics(sim)
    /\ frame' = frame
    /\ hist' = [hist EXCEPT !.resets = IF @ < MaxRuns THEN @ + 1 ELSE @,
                            !.since_reset = 0, !.just_returned = FALSE,
                            !.arrivals = 0]
    /\ parUnchanged

GenerateNewEvents ==
    /\ frame.pc = "loop"
    /\ frame.tick < frame.end_time
    /\ \E n \in run_generate(sim, frame) :
         /\ sim' = n.sim
         /\ frame' = n.frame
         /\ hist' = [hist EXCEPT !.call_generated = Append(@, frame.tick),
                                 !.queued = Len(n.sim.events),
                                 !.evaluated = 0, !.tags = <<>>,
                                 !.last = NoLast,
                                 !.arrivals = @ + Len(n.sim.events)
                                                - Len(sim.events)]
    /\ parUnchanged

ProcessEvent ==
    /\ frame.pc = "process"
    /\ sim.events # <<>>
    /\ \E n \in process_event(sim, frame) :
         /\ sim' = n.sim
         /\ frame' = n.frame
         /\ hist' = HistEvent(HistCount(hist, sim, n.sim), sim,
                              frame.new_events, n.frame.new_events, frame.tick)
    /\ parUnchanged

ProcessTickEnd ==
    /\ frame.pc = "process"
    /\ sim.events = <<>>
    /\ LET n == process_tick_end(sim, frame)
       IN  /\ sim' = n.sim
           /\ frame' = n.frame
           /\ hist' = IF n.frame.pc = "panic" THEN hist
                      ELSE [hist EXCEPT !.ticks = @ + 1, !.since_reset = @ + 1,
                                        !.call_ticks = Append(@, frame.tick)]
    /\ parUnchanged

LogTick ==
    /\ frame.pc = "log"
    /\ LET n == run_log(sim, frame)
       IN  /\ sim' = n.sim
           /\ frame' = n.frame
    /\ hist' = hist
    /\ parUnchanged

Return ==
    /\ frame.pc = "loop"
    /\ ~(frame.tick < frame.end_time)
    /\ LET n == run_return(sim, frame)
       IN  /\ sim' = n.sim
           /\ frame' = n.frame
    /\ hist' = [hist EXCEPT !.just_returned = TRUE]
    /\ parUnchanged

Init ==
    /\ \E config \in Configs : sim = with_config(config)
    /\ frame = NoFrame
    /\ hist = NoHist
    /\ sims = <<>>
    /\ rep = <<>>
    /\ task = [pc |-> "off"]
    /\ order = <<>>

Next ==
    \/ Run
    \/ ResetMetrics
    \/ GenerateNewEvents
    \/ ProcessEvent
    \/ ProcessTickEnd
    \/ LogTick
    \/ Return

Spec == Init /\ [][Next]_vars

(* A call of run() that has started keeps executing: the tick loop is      *)
(* sequential code with no suspension point.                               *)
RunStep == GenerateNewEvents \/ ProcessEvent \/ ProcessTickEnd \/ LogTick \/ Return

FairSpec == Spec /\ WF_vars(RunStep)

(* The same program in a larger restaurant, for the order of the queue:    *)
(* with one table more than MaxTables three clients can be seated at once, *)
(* so that a client can wait on either side of a walking worker.           *)
QueueTables == MaxTables + 1

QueueConfigs ==
    {[config EXCEPT !.tables = QueueTables] :
        config \in {c \in Configs : c.workers = MaxWorkers /\ c.client_ratio < 100}}

InitQueue ==
    /\ \E config \in QueueConfigs : sim = with_config(config)
    /\ frame = NoFrame
    /\ hist = NoHist
    /\ sims = <<>>
    /\ rep = <<>>
    /\ task = [pc |-> "off"]
    /\ order = <<>>

SpecQueue == InitQueue /\ [][Next]_vars

-----------------------------------------------------------------------------
(* Results (results.rs): zeros, the field-wise sum add_mut and the         *)
(* division of every field norm_mut; f32 values are the fractions of       *)
(* result_of, NaN + x = NaN                                                *)

f32_add(a, b) ==
    IF a[2] = 0 \/ b[2] = 0
    THEN <<0, 0>>
    ELSE f32_div(a[1] * b[2] + b[1] * a[2], a[2] * b[2])

f32_div_by(a, n) == IF a[2] = 0 THEN a ELSE f32_div(a[1], a[2] * n)

ResultsFields ==
    {"average_consumption_time", "average_worker_waiting_time",
     "average_order_time", "average_busy_tables", "average_free_workers",
     "dispatched_clients", "not_dispatched_clients",
     "immediately_left_clients_count"}

Results_zeros == [field \in ResultsFields |-> <<0, 1>>]

Results_add_mut(self, other) ==
    [field \in ResultsFields |-> f32_add(self[field], other[field])]

Results_norm_mut(self, n) ==
    [field \in ResultsFields |-> f32_div_by(self[field], n)]

-----------------------------------------------------------------------------
(* task_3_1: config.experiment.total replications run by the thread pool,  *)
(* collected in index order, summed and normalised                         *)

\* the configuration task_3_1 is given
ParConfig ==
    [max_time |-> ParTime, tables |-> 1, workers |-> 1, client_ratio |-> 50,
     use_logs |-> FALSE, dancing_time |-> <<0, MaxDuration + 1>>,
     production_time |-> <<1, MaxDuration + 1>>,
     consumption_time |-> <<1, MaxDuration + 1>>]

Replications == 1 .. ParTotal

\* every closure answering to the first closure's Simulation
sim_of_shared(i) == 1

\* the Simulation the closure of replication i builds and runs: a local of
\* the closure, one for each replication
sim_of(i) == i

\* one step of a started run(): the successors of (s, f)
run_step(s, f) ==
    CASE f.pc = "loop" /\ f.tick < f.end_time -> run_generate(s, f)
      [] f.pc = "loop" /\ ~(f.tick < f.end_time) -> {run_return(s, f)}
      [] f.pc = "process" /\ s.events # <<>> -> process_event(s, f)
      [] f.pc = "process" /\ s.events = <<>> -> {process_tick_end(s, f)}
      [] f.pc = "log" -> {run_log(s, f)}
      [] OTHER -> {}

\* collect::<Vec<_>>() of an indexed parallel iterator: slot i holds what
\* replication i returned
collect(r) == [i \in Replications |-> r[i].frame.ret]

NoSeen == [dispatched |-> 0, not_dispatched |-> 0, left |-> 0]

Seen(seen, s, s2) ==
    [dispatched |-> seen.dispatched
                      + (s2.dispatched_clients_count - s.dispatched_clients_count),
     not_dispatched |-> seen.not_dispatched
                      + (s2.not_dispatched_clients - s.not_dispatched_clients),
     left |-> seen.left
                      + (s2.immediately_left_clients_count
                           - s.immediately_left_clients_count)]

\* the closure of replication i starts: with_config(config.simulation.clone())
\* and the entry of sim.run()
RepStart(i) ==
    /\ task.pc = "map"
    /\ rep[i].st = "pending"
    /\ LET n == run_begin(with_config(task.config), NoFrame)
       IN  /\ sims' = [sims EXCEPT ![sim_of(i)] = Some(n.sim)]
           /\ rep' = [rep EXCEPT ![i] = [st |-> "running", frame |-> n.frame,
                                         seen |-> NoSeen]]
    /\ UNCHANGED <<sim, frame, hist, task, order>>

\* the closure of replication i executes one step of sim.run()
RepStep(i) ==
    /\ task.pc = "map"
    /\ rep[i].st = "running"
    /\ sims[sim_of(i)] # None
    /\ \E n \in run_step(sims[sim_of(i)][1], rep[i].frame) :
         /\ sims' = [sims EXCEPT ![sim_of(i)] = Some(n.sim)]
         /\ rep' = [rep EXCEPT
                      ![i] = [st |-> IF n.frame.pc = "idle" THEN "done" ELSE "running",
                              frame |-> n.frame,
                              seen |-> Seen(rep[i].seen, sims[sim_of(i)][1], n.sim)]]
         /\ order' = IF n.frame.pc = "idle" THEN Append(order, i) ELSE order
    /\ UNCHANGED <<sim, frame, hist, task>>

\* all closures have returned: collect() yields tmp
Collect ==
    /\ task.pc = "map"
    /\ \A i \in Replications : rep[i].st = "done"
    /\ task' = [task EXCEPT !.pc = "fold", !.tmp = collect(rep)]
    /\ UNCHANGED <<sim, frame, hist, sims, rep, order>>

\* tmp.into_iter().for_each: the next element is added to total_results and
\* pushed to results
Fold ==
    /\ task.pc = "fold"
    /\ Len(task.results) < Len(task.tmp)
    /\ LET run_result == task.tmp[Len(task.results) + 1][1]
       IN  task' = [task EXCEPT
                      !.total_results = Results_add_mut(@, run_result),
                      !.results = Append(@, run_result)]
    /\ UNCHANGED <<sim, frame, hist, sims, rep, order>>

\* total_results.norm_mut(config.experiment.total)
Norm ==
    /\ task.pc = "fold"
    /\ Len(task.results) = Len(task.tmp)
    /\ task' = [task EXCEPT
                  !.total_results = Results_norm_mut(@, task.total),
                  !.pc = "done"]
    /\ UNCHANGED <<sim, frame, hist, sims, rep, order>>

ParInit ==
    /\ sim = with_config(ParConfig)
    /\ frame = NoFrame
    /\ hist = NoHist
    /\ sims = [i \in Replications |-> None]
    /\ rep = [i \in Replications |-> [st |-> "pending", frame |-> NoFrame,
                                      seen |-> NoSeen]]
    /\ task = [pc |-> "map", config |-> ParConfig, total |-> ParTotal,
               total_results |-> Results_zeros, results |-> <<>>, tmp |-> <<>>]
    /\ order = <<>>

ParNext ==
    \/ \E i \in Replications : RepStart(i)
    \/ \E i \in Replications : RepStep(i)
    \/ Collect
    \/ Fold
    \/ Norm

SpecPar == ParInit /\ [][ParNext]_vars


-----------------------------------------------------------------------------
(* Properties                                                              *)

\* the seated clients in flight in a queue: every event but Enter
Seated(q) == Cardinality({i \in 1 .. Len(q) : q[i].type # "Enter"})

\* the queued events of one kind
CountOf(q, type) == Cardinality({i \in 1 .. Len(q) : q[i].type = type})

\* between two ticks: process_tick has returned, the next tick has not begun
AtTickBoundary == frame.pc \in {"log", "loop", "idle"}

\* C1: table conservation. After every processed tick, across run() and
\* reset_metrics() calls, available_tables plus the queued WaitingForWorker,
\* WorkerWalkingDance, WaitingForFood and ConsumeFood events is config.tables;
\* available_tables never exceeds config.tables, so the u32 subtraction
\* config.tables - available_tables never underflows. (While a tick is being
\* processed the seated clients are those of both queues.)
C1_TableConservation ==
    /\ frame.pc # "panic"
    /\ sim.available_tables <= sim.config.tables
    /\ sim.available_tables + Seated(sim.events) + Seated(frame.new_events)
         = sim.config.tables
    /\ AtTickBoundary =>
         sim.available_tables
           + CountOf(sim.events, "WaitingForWorker")
           + CountOf(sim.events, "WorkerWalkingDance")
           + CountOf(sim.events, "WaitingForFood")
           + CountOf(sim.events, "ConsumeFood") = sim.config.tables

\* a tick boundary of the second run, after a reset, with one client seated,
\* one table free and clients who already gave their table back
C1_Witness ==
    /\ frame.pc = "log"
    /\ hist.calls = 2
    /\ hist.resets > 0
    /\ sim.config.tables = 2
    /\ sim.available_tables = 1
    /\ Seated(sim.events) = 1
    /\ sim.average_worker_waiting_time[2] > 0
    /\ sim.dispatched_clients_count + sim.not_dispatched_clients > 0

\* C2: available_workers <= config.workers in every reachable state, so the
\* assertion evaluated when a WorkerWalkingDance event completes never fails
\* and the run never aborts.
C2_WorkersBounded ==
    /\ sim.available_workers <= sim.config.workers
    /\ frame.pc # "panic"

\* a WorkerWalkingDance event has completed in the second run after a reset:
\* the assertion was evaluated with all workers free again
C2_Witness ==
    /\ hist.calls = 2
    /\ hist.resets > 0
    /\ sim.config.workers = 1
    /\ sim.available_workers = sim.config.workers
    /\ sim.average_order_time[2] > 0
    /\ frame.pc = "process"

\* the first tick of the current (or last) call of run(): every earlier
\* call advanced the clock by max_time
CallStart == (hist.calls - 1) * sim.t_max_time

C3_Ticks ==
    /\ hist.calls = 0 => sim.world_time = None /\ frame.pc = "idle"
    /\ hist.calls > 0 =>
         /\ frame.start_time = CallStart
         /\ frame.end_time = CallStart + sim.t_max_time
         /\ sim.world_time = Some(CallStart + sim.t_max_time)
         /\ Len(hist.call_ticks) <= sim.t_max_time
         /\ \A i \in 1 .. Len(hist.call_ticks) :
              hist.call_ticks[i] = CallStart + i - 1
         /\ frame.pc = "idle" => Len(hist.call_ticks) = sim.t_max_time
         /\ frame.pc = "process" =>
              /\ frame.tick = CallStart + Len(hist.call_ticks)
              /\ hist.call_generated = Append(hist.call_ticks, frame.tick)
         /\ frame.pc \in {"log", "loop", "idle"} =>
              hist.call_generated = hist.call_ticks

\* C3: every call to run() terminates after processing exactly max_time
\* ticks, in increasing order start, start+1, ..., start+max_time-1, where
\* start is 0 on the first call and the previous call's end time afterwards;
\* on return world_time is start + max_time; a tick is generated and then
\* processed completely before the next tick is generated.
C3_RunProcessesMaxTimeTicks ==
    /\ [](C3_Ticks)
    /\ (frame.pc # "idle") ~> (frame.pc = "idle")

\* the second call has returned: it processed the ticks max_time ..
\* 2 * max_time - 1
C3_Witness ==
    /\ hist.calls = 2
    /\ frame.pc = "idle"
    /\ hist.call_ticks = [i \in 1 .. sim.t_max_time |-> sim.t_max_time + i - 1]
    /\ sim.world_time = Some(2 * sim.t_max_time)

\* the counters of a Results record, as run() returns them (usize as f32)
ReturnedCounters(r) ==
    <<r.dispatched_clients, r.not_dispatched_clients, r.immediately_left_clients_count>>

\* the clients counted while the current call of run() was processing ticks
CallCounters ==
    <<<<hist.call_dispatched, 1>>, <<hist.call_not_dispatched, 1>>,
      <<hist.call_left, 1>>>>

\* C4 as claimed: every call to run(), a second call on the same Simulation
\* included, returns the Results of the ticks of that call only: the
\* occupancy sample count behind the returned averages is max_time and the
\* returned counters count the events of that call's ticks.
C4_ReturnsOwnTicksOnly ==
    hist.just_returned =>
      /\ sim.average_busy_tables[2] = sim.t_max_time
      /\ sim.average_free_workers[2] = sim.t_max_time
      /\ ReturnedCounters(frame.ret[1]) = CallCounters

\* C4 as amended: run() returns the Results accumulated since construction
\* or the last reset_metrics(). The sample count behind the returned
\* averages is max_time times the number of run() calls since then, and the
\* returned counters include at least the events of this call; for the first
\* call after construction or after reset_metrics() they are the sample
\* count max_time and the events of that call only.
C4_ReturnsTicksSinceReset ==
    hist.just_returned =>
      /\ sim.average_busy_tables[2] = hist.call_seq * sim.t_max_time
      /\ sim.average_free_workers[2] = hist.call_seq * sim.t_max_time
      /\ frame.ret[1].average_busy_tables =
           f32_div(sim.average_busy_tables[1], hist.call_seq * sim.t_max_time)
      /\ \A i \in 1 .. 3 :
           ReturnedCounters(frame.ret[1])[i][1] >= CallCounters[i][1]
      /\ hist.call_seq = 1 => ReturnedCounters(frame.ret[1]) = CallCounters

\* the second call, made after reset_metrics(), has returned with clients
\* counted in it
C4_Witness ==
    /\ hist.just_returned
    /\ hist.calls = 2
    /\ hist.call_seq = 1
    /\ hist.resets > 0
    /\ hist.call_dispatched > 0
    /\ hist.call_left > 0
    /\ sim.average_busy_tables = <<2 * sim.t_max_time, sim.t_max_time>>

\* C5: reset_metrics() zeroes the five (sum, count) accumulators and the
\* three client counters and leaves available_tables, available_workers, the
\* event queue and world_time as they are; the table and worker invariants
\* keep holding in the segments that follow a reset.
C5_ResetFrame ==
    /\ [][ResetMetrics =>
            /\ sim'.average_worker_waiting_time = <<0, 0>>
            /\ sim'.average_order_time = <<0, 0>>
            /\ sim'.average_consumption_time = <<0, 0>>
            /\ sim'.average_busy_tables = <<0, 0>>
            /\ sim'.average_free_workers = <<0, 0>>
            /\ sim'.not_dispatched_clients = 0
            /\ sim'.dispatched_clients_count = 0
            /\ sim'.immediately_left_clients_count = 0
            /\ sim'.available_tables = sim.available_tables
            /\ sim'.available_workers = sim.available_workers
            /\ sim'.events = sim.events
            /\ sim'.world_time = sim.world_time
            /\ sim'.config = sim.config
            /\ sim'.t_max_time = sim.t_max_time]_vars
    /\ [](hist.resets > 0 =>
            /\ sim.available_tables + Seated(sim.events) + Seated(frame.new_events)
                 = sim.config.tables
            /\ sim.available_workers + CountOf(sim.events, "WorkerWalkingDance")
                 + CountOf(frame.new_events, "WorkerWalkingDance")
                 = sim.config.workers)

\* reset_metrics() has just run between two segments, on a Simulation with a
\* seated client, a busy worker and a clock that has advanced
C5_Witness ==
    /\ frame.pc = "idle"
    /\ hist.resets > 0
    /\ hist.calls = 1
    /\ hist.since_reset = 0
    /\ ~hist.just_returned
    /\ sim.world_time = Some(sim.t_max_time)
    /\ sim.available_tables < sim.config.tables
    /\ sim.available_workers < sim.config.workers
    /\ sim.events # <<>>
    /\ sim.average_busy_tables = <<0, 0>>

\* C6: with tables = 0 and client_ratio = 1.0, after T ticks from a fresh
\* Simulation the immediately-left counter is T (T ticks since the last
\* reset, when there was one), no client is ever seated and the event queue
\* is empty after every tick.
C6_NoTables ==
    (sim.config.tables = 0 /\ sim.config.client_ratio = 100) =>
      /\ sim.available_tables = 0
      /\ Seated(sim.events) = 0
      /\ Seated(frame.new_events) = 0
      /\ AtTickBoundary =>
           /\ sim.events = <<>>
           /\ sim.immediately_left_clients_count = hist.since_reset
           /\ hist.resets = 0 => sim.immediately_left_clients_count = hist.ticks

\* two runs without a reset: every one of the 2 * max_time arrivals left
C6_Witness ==
    /\ sim.config.tables = 0
    /\ sim.config.client_ratio = 100
    /\ hist.resets = 0
    /\ hist.just_returned
    /\ hist.calls = 2
    /\ sim.immediately_left_clients_count = 2 * sim.t_max_time

\* the step that samples the occupancy: the queue of the tick is drained,
\* and the values added are those the tick ends with
OccupancySample ==
    /\ frame.pc = "process"
    /\ sim.events = <<>>
    /\ frame'.pc = "log"
    /\ sim'.available_tables = sim.available_tables
    /\ sim'.available_workers = sim.available_workers
    /\ sim'.average_busy_tables =
         <<sim.average_busy_tables[1] + (sim.config.tables - sim'.available_tables),
           sim.average_busy_tables[2] + 1>>
    /\ sim'.average_free_workers =
         <<sim.average_free_workers[1] + sim'.available_workers,
           sim.average_free_workers[2] + 1>>

\* C7: the occupancy is sampled exactly once per tick, after all events of
\* the tick were processed: after n ticks since construction or the last
\* reset_metrics() both occupancy accumulators have count n, and each tick
\* adds config.tables - available_tables and available_workers, as they stand
\* at the end of that tick, to the sums.
C7_OccupancySampledOncePerTick ==
    /\ [](/\ sim.average_busy_tables[2] = hist.since_reset
          /\ sim.average_free_workers[2] = hist.since_reset)
    /\ [][(\/ sim'.average_busy_tables # sim.average_busy_tables
           \/ sim'.average_free_workers # sim.average_free_workers
           \/ hist'.since_reset # hist.since_reset)
            => (ResetMetrics \/ OccupancySample)]_vars

\* two ticks sampled since a reset, with three busy tables counted in all
C7_Witness ==
    /\ frame.pc = "log"
    /\ hist.resets > 0
    /\ hist.calls = 2
    /\ hist.since_reset = 2
    /\ sim.average_busy_tables = <<3, 2>>
    /\ sim.average_free_workers = <<1, 2>>

\* the tick offsets of a log are 0, 1, ..., n - 1
OffsetsFromZero(log, n) ==
    /\ Len(log) = n
    /\ \A i \in 1 .. n : log[i][1] = i - 1

\* C8: with logging enabled run() returns a Log of exactly one snapshot per
\* processed tick, appended in increasing order with the offsets 0, 1, ...,
\* max_time - 1 from the call's start tick, also in a later call that starts
\* at a non-zero world_time; with logging disabled the Log has no snapshot.
C8_LogPerTick ==
    /\ frame.pc \in {"loop", "process"} =>
         IF sim.config.use_logs
         THEN OffsetsFromZero(frame.log, Len(hist.call_ticks))
         ELSE frame.log = Log_empty
    /\ frame.ret # <<>> =>
         IF sim.config.use_logs
         THEN OffsetsFromZero(frame.ret[2], sim.t_max_time)
         ELSE frame.ret[2] = Log_empty

\* the second call, which started at tick max_time, has returned its log
C8_Witness ==
    /\ hist.just_returned
    /\ hist.calls = 2
    /\ sim.config.use_logs
    /\ frame.start_time = sim.t_max_time
    /\ frame.start_time > 0
    /\ Len(frame.ret[2]) = sim.t_max_time
    /\ frame.ret[2][sim.t_max_time][1] = sim.t_max_time - 1

\* tick 0 of a fresh Simulation has been processed
AfterTickZero == AtTickBoundary /\ hist.ticks = 1

\* C9: with 1 table, 1 worker and client_ratio = 1.0 on a fresh Simulation
\* the client arriving at tick 0 is always seated: after tick 0
\* available_tables is 0, a first-wait WaitingForWorker event is queued and
\* the immediately-left counter is 0.
C9_FirstClientSeated ==
    (/\ sim.config.tables = 1
     /\ sim.config.workers = 1
     /\ sim.config.client_ratio = 100
     /\ AfterTickZero) =>
      /\ sim.available_tables = 0
      /\ \E d \in gen_range(FirstWaitRange) :
           sim.events = <<WaitingForWorker(0, d, TRUE)>>
      /\ sim.immediately_left_clients_count = 0

\* the first client sits and waits, with the longest patience
C9_Witness ==
    /\ sim.config.tables = 1
    /\ sim.config.workers = 1
    /\ sim.config.client_ratio = 100
    /\ AfterTickZero
    /\ sim.events = <<WaitingForWorker(0, 9, TRUE)>>
    /\ sim.available_tables = 0

\* the index-ordered sum of the Results of the replications 1 .. n
RECURSIVE SumOfResults(_, _)
SumOfResults(r, n) ==
    IF n = 0 THEN Results_zeros
    ELSE Results_add_mut(SumOfResults(r, n - 1), r[n])

\* the clients replication i itself counted, summed over the replications
RECURSIVE SumOfSeen(_, _)
SumOfSeen(field, n) ==
    IF n = 0 THEN 0 ELSE SumOfSeen(field, n - 1) + rep[n].seen[field]

\* C10: independent replications run in parallel share no mutable state: a
\* step of one replication changes the Simulation and the locals of that
\* replication only, and each runs ticks 0 .. max_time - 1 on its own
\* Simulation; the aggregate (the sum of their Results divided by the number
\* of replications) is the mean of what each replication did on its own,
\* whatever the order in which they executed and completed.
C10_ReplicationsIndependent ==
    /\ [][\A i \in Replications :
            (RepStart(i) \/ RepStep(i)) =>
               \A j \in Replications \ {i} :
                  sims'[j] = sims[j] /\ rep'[j] = rep[j]]_vars
    /\ [](\A i \in Replications :
            rep[i].st = "done" =>
              /\ rep[i].frame.start_time = 0
              /\ sims[i][1].world_time = Some(task.config.max_time)
              /\ sims[i][1].average_busy_tables[2] = task.config.max_time
              /\ rep[i].frame.ret[1] = result_of(sims[i][1])
              /\ ReturnedCounters(rep[i].frame.ret[1]) =
                   <<<<rep[i].seen.dispatched, 1>>, <<rep[i].seen.not_dispatched, 1>>,
                     <<rep[i].seen.left, 1>>>>)
    /\ [](task.pc = "done" =>
            /\ task.results = [i \in Replications |-> result_of(sims[i][1])]
            /\ task.total_results =
                 Results_norm_mut(SumOfResults(task.results, ParTotal), ParTotal)
            /\ ReturnedCounters(task.total_results) =
                 <<f32_div(SumOfSeen("dispatched", ParTotal), ParTotal),
                   f32_div(SumOfSeen("not_dispatched", ParTotal), ParTotal),
                   f32_div(SumOfSeen("left", ParTotal), ParTotal)>>)

\* the aggregate is complete; the second replication completed before the
\* first, and they returned different Results
C10_Witness ==
    /\ task.pc = "done"
    /\ order[1] = 2
    /\ rep[1].seen.left = 1
    /\ rep[2].seen.left = 0
    /\ task.results[1] # task.results[2]
    /\ task.total_results.immediately_left_clients_count = <<1, ParTotal>>

-----------------------------------------------------------------------------
(* The evaluation of one event, as seen from the state before it          *)

\* the next step pops an event of this type and evaluates it
Evaluating(type) ==
    /\ frame.pc = "process"
    /\ sim.events # <<>>
    /\ Head(sim.events).type = type

\* C11: a tick generates at most one Enter event, at the back of the queue,
\* and evaluates it in that same tick: with a free table it takes one table
\* and enqueues WaitingForWorker(t, d, true) with t < d, otherwise only the
\* immediately-left counter grows by one; no Enter event is in the queue
\* once the tick is processed.
C11_EnterEvaluatedAtOnce ==
    [][/\ (frame.pc = "loop" /\ frame'.pc = "process") =>
              /\ sim'.events \in {sim.events,
                                   Append(sim.events, Enter(frame.tick))}
              /\ CountOf(sim'.events, "Enter") <= 1
       /\ Evaluating("Enter") =>
              LET t == frame.tick
                  q == frame.new_events
                  q2 == frame'.new_events
              IN  /\ Head(sim.events).arrival_time = t
                  /\ IF sim.available_tables > 0
                     THEN /\ sim' = [sim EXCEPT !.events = Tail(@),
                                                 !.available_tables = @ - 1]
                          /\ Len(q2) = Len(q) + 1
                          /\ q2 = Append(q, WaitingForWorker(
                                       t, q2[Len(q2)].leave_time, TRUE))
                          /\ t < q2[Len(q2)].leave_time
                     ELSE /\ sim' = [sim EXCEPT
                                       !.events = Tail(@),
                                       !.immediately_left_clients_count = @ + 1]
                          /\ q2 = q
       /\ CountOf(frame'.new_events, "Enter") = 0
       /\ AtTickBoundary' => CountOf(sim'.events, "Enter") = 0]_vars

\* an arrival has just taken a table, after an earlier arrival found none
C11_Witness ==
    /\ frame.pc = "process"
    /\ hist.last.type = "Enter"
    /\ hist.last.outcome = "next"
    /\ sim.immediately_left_clients_count > 0
    /\ frame.new_events[Len(frame.new_events)].is_first_time

\* C12: timeout before service: a WaitingForWorker(start, deadline, first)
\* evaluated at a tick t >= deadline leaves without service, also when a
\* worker is free: the table is returned, deadline - start is added to the
\* waiting-time accumulator, available_workers is unchanged, nothing is
\* enqueued, and the not-dispatched counter grows iff first is true.
C12_TimeoutBeforeService ==
    [][(Evaluating("WaitingForWorker")
          /\ Head(sim.events).leave_time <= frame.tick) =>
         LET event == Head(sim.events)
         IN  /\ sim' = [sim EXCEPT
                          !.events = Tail(@),
                          !.available_tables = @ + 1,
                          !.average_worker_waiting_time =
                              <<@[1] + (event.leave_time - event.start_time),
                                @[2] + 1>>,
                          !.not_dispatched_clients =
                              IF event.is_first_time THEN @ + 1 ELSE @]
             /\ sim'.available_workers = sim.available_workers
             /\ frame'.new_events = frame.new_events]_vars

\* a client has just left on its deadline although a worker was free
C12_Witness ==
    /\ hist.last.type = "WaitingForWorker"
    /\ hist.last.due
    /\ hist.last.free
    /\ hist.last.outcome = "gone"
    /\ sim.available_workers > 0

\* C13: a WaitingForWorker(start, deadline, first) evaluated at a tick
\* t < deadline gets a worker iff available_workers > 0: then
\* available_workers drops by one, a WorkerWalkingDance is enqueued at the
\* back and t - start is recorded; otherwise the same event is enqueued
\* again at the back and nothing else changes.
C13_GrantIffWorkerFree ==
    [][(Evaluating("WaitingForWorker")
          /\ Head(sim.events).leave_time > frame.tick) =>
         LET event == Head(sim.events)
             q == frame.new_events
             q2 == frame'.new_events
         IN  /\ Len(q2) = Len(q) + 1
             /\ IF sim.available_workers > 0
                THEN /\ sim' = [sim EXCEPT
                                  !.events = Tail(@),
                                  !.available_workers = @ - 1,
                                  !.average_worker_waiting_time =
                                      <<@[1] + (frame.tick - event.start_time),
                                        @[2] + 1>>]
                     /\ q2 = Append(q, WorkerWalkingDance(
                                  q2[Len(q2)].free_worker_time))
                ELSE /\ sim' = [sim EXCEPT !.events = Tail(@)]
                     /\ q2 = Append(q, WaitingForWorker(event.start_time,
                                  event.leave_time, event.is_first_time))]_vars

\* a waiting client has just been enqueued again, the only worker having
\* been granted earlier in the same tick
C13_Witness ==
    /\ frame.pc = "process"
    /\ hist.last.type = "WaitingForWorker"
    /\ ~hist.last.due
    /\ ~hist.last.free
    /\ hist.last.outcome = "kept"
    /\ \E i \in 1..Len(frame.new_events) :
          /\ frame.new_events[i].type = "WorkerWalkingDance"
          /\ ~hist.tags[i].same

\* C14: every acquired worker is released exactly once:
\* available_workers plus the number of queued WorkerWalkingDance events
\* is config.workers in every state, so after every tick; a worker is
\* acquired only by a grant to a WaitingForWorker and released only when a
\* WorkerWalkingDance completes, the event becoming a WaitingForFood; the
\* evaluation of a WaitingForFood or ConsumeFood leaves available_workers
\* alone.
C14_WorkerReleasedAfterWalk ==
    [][/\ sim'.available_workers + CountOf(sim'.events, "WorkerWalkingDance")
            + (IF frame'.pc = "process"
               THEN CountOf(frame'.new_events, "WorkerWalkingDance") ELSE 0)
          = sim'.config.workers
       /\ (Evaluating("WorkerWalkingDance")
             /\ Head(sim.events).free_worker_time <= frame.tick) =>
              /\ sim'.available_workers = sim.available_workers + 1
              /\ Len(frame'.new_events) = Len(frame.new_events) + 1
              /\ frame'.new_events[Len(frame'.new_events)].type = "WaitingForFood"
       /\ (frame.pc = "process"
             /\ sim'.available_workers > sim.available_workers) =>
              /\ Evaluating("WorkerWalkingDance")
              /\ Head(sim.events).free_worker_time <= frame.tick
       /\ (frame.pc = "process"
             /\ sim'.available_workers < sim.available_workers) =>
              /\ Evaluating("WaitingForWorker")
              /\ sim'.available_workers = sim.available_workers - 1
       /\ (Evaluating("WaitingForFood") \/ Evaluating("ConsumeFood")) =>
              sim'.available_workers = sim.available_workers]_vars

\* a walk has just completed and the worker is free again while the
\* client waits for the food
C14_Witness ==
    /\ frame.pc = "process"
    /\ hist.last.type = "WorkerWalkingDance"
    /\ hist.last.outcome = "next"
    /\ ~hist.last.free
    /\ sim.available_workers = sim.config.workers
    /\ frame.new_events[Len(frame.new_events)].type = "WaitingForFood"

\* C15: a ConsumeFood that finishes does exactly one of two things: the
\* client orders again (WaitingForWorker(t, d, false) with t < d enqueued,
\* the table kept, no counter changed) or departs (dispatched counter and
\* available_tables both grow by one, nothing enqueued); no other
\* evaluation of an event changes the dispatched counter (reset_metrics
\* sets it to zero).
C15_ReorderOrDepart ==
    [][/\ (Evaluating("ConsumeFood")
             /\ Head(sim.events).end_consume_time <= frame.tick) =>
              LET t == frame.tick
                  q == frame.new_events
                  q2 == frame'.new_events
              IN  \/ /\ sim' = [sim EXCEPT !.events = Tail(@)]
                     /\ Len(q2) = Len(q) + 1
                     /\ q2 = Append(q, WaitingForWorker(
                                  t, q2[Len(q2)].leave_time, FALSE))
                     /\ t < q2[Len(q2)].leave_time
                  \/ /\ sim' = [sim EXCEPT
                                   !.events = Tail(@),
                                   !.dispatched_clients_count = @ + 1,
                                   !.available_tables = @ + 1]
                     /\ q2 = q
       /\ sim'.dispatched_clients_count # sim.dispatched_clients_count =>
              \/ /\ Evaluating("ConsumeFood")
                 /\ Head(sim.events).end_consume_time <= frame.tick
              \/ /\ frame.pc = "idle"
                 /\ sim' = reset_metrics(sim)]_vars

\* a client has just ordered again after another client has departed
C15_Witness ==
    /\ frame.pc = "process"
    /\ hist.last.type = "ConsumeFood"
    /\ hist.last.due
    /\ hist.last.outcome = "next"
    /\ sim.dispatched_clients_count > 0
    /\ ~frame.new_events[Len(frame.new_events)].is_first_time

-----------------------------------------------------------------------------
(* The order of the queue a tick leaves                                    *)

\* the queue the tick builds: new_events during the tick, events after it
TickQueue == IF frame.pc = "process" THEN frame.new_events ELSE sim.events

\* the tags of the history describe TickQueue
Tagged == frame.pc \in {"process", "log"}

\* position i holds an in-progress event of the old queue, not yet ready
Carried(i) ==
    /\ hist.tags[i].same
    /\ TickQueue[i].type \in {"WorkerWalkingDance", "WaitingForFood"}

\* position i holds a blocked client or an unfinished meal of the old queue
Kept(i) ==
    /\ hist.tags[i].same
    /\ TickQueue[i].type \in {"WaitingForWorker", "ConsumeFood"}

\* C16: front/back policy: in the queue a tick leaves (and in the queue it
\* is building), every not-yet-ready WorkerWalkingDance or WaitingForFood
\* carried over from the old queue stands before every event enqueued at
\* the back in that tick: the events newly created, the blocked
\* WaitingForWorker and the unfinished ConsumeFood.
C16_CarriedBeforeBack ==
    Tagged =>
      /\ Len(hist.tags) = Len(TickQueue)
      /\ \A i, j \in 1 .. Len(TickQueue) :
            (Carried(i) /\ ~Carried(j)) =>
               /\ i < j
               /\ Stored(TickQueue[i]) > frame.tick
               /\ hist.tags[i].from <= hist.queued

\* a tick has left a carried-over event, a blocked client and a newly
\* created event in the queue
C16_Witness ==
    /\ frame.pc = "log"
    /\ \E i, j, k \in 1 .. Len(sim.events) :
          /\ Carried(i)
          /\ Kept(j) /\ sim.events[j].type = "WaitingForWorker"
          /\ ~hist.tags[k].same

\* C17: two not-yet-ready WorkerWalkingDance / WaitingForFood events both
\* carried over a tick stand in the new queue in the order they had in the
\* old one.
C17_CarriedOrderKept ==
    Tagged =>
      \A i, j \in 1 .. Len(TickQueue) :
         (Carried(i) /\ Carried(j) /\ hist.tags[i].from < hist.tags[j].from)
            => i < j

\* C18: two events both enqueued again at the back in a tick (blocked
\* WaitingForWorker, unfinished ConsumeFood) stand in the new queue in the
\* order they had in the old one; tick after tick, so for any number of
\* ticks.
C18_WaitingOrderKept ==
    Tagged =>
      \A i, j \in 1 .. Len(TickQueue) :
         (Kept(i) /\ Kept(j) /\ hist.tags[i].from < hist.tags[j].from)
            => i < j

\* a tick has enqueued again, in their order, a blocked client and an
\* unfinished meal
C18_Witness ==
    /\ frame.pc = "log"
    /\ \E i, j \in 1 .. Len(sim.events) :
          /\ i < j
          /\ Kept(i) /\ Kept(j)
          /\ sim.events[i].type # sim.events[j].type
          /\ hist.tags[i].from < hist.tags[j].from

\* C19: workers are granted in queue order: once a WaitingForWorker with
\* unexpired deadline has been enqueued again in a tick for want of a free
\* worker, no WaitingForWorker evaluated later in that tick is granted a
\* worker.
C19_GrantsInQueueOrder ==
    ~ /\ frame.pc = "process"
      /\ hist.last.type = "WaitingForWorker"
      /\ hist.last.outcome = "next"
      /\ \E k \in 1 .. Len(frame.new_events) :
            /\ hist.tags[k].same
            /\ frame.new_events[k].type = "WaitingForWorker"

\* C20: no overdue event survives a tick: every step of a tick pops one
\* event, and when the tick ends every event of the queue it started with
\* has been evaluated once; an event of the old queue that is enqueued
\* again carries a tick greater than the tick just processed; so a waiting
\* client that is not served leaves at tick = deadline exactly.
C20_NoOverdueEvent ==
    [][/\ (frame.pc = "process" /\ sim.events # <<>>) =>
              /\ sim'.events = Tail(sim.events)
              /\ frame'.pc = "process"
       /\ (frame.pc = "process" /\ frame'.pc = "log") =>
              /\ sim.events = <<>>
              /\ hist.evaluated = hist.queued
              /\ sim'.events = frame.new_events
       /\ (frame'.pc \in {"process", "log"}) =>
              \A i \in 1 .. Len(hist'.tags) :
                 hist'.tags[i].same =>
                    Stored((IF frame'.pc = "process" THEN frame'.new_events
                            ELSE sim'.events)[i]) > frame'.tick
       /\ (Evaluating("WaitingForWorker")
             /\ Head(sim.events).leave_time <= frame.tick) =>
              Head(sim.events).leave_time = frame.tick]_vars

\* a client who was never served has just left, at its deadline, in a
\* tick that has more events to evaluate
C20_Witness ==
    /\ frame.pc = "process"
    /\ hist.last.type = "WaitingForWorker"
    /\ hist.last.due
    /\ hist.last.outcome = "gone"
    /\ sim.not_dispatched_clients > 0
    /\ hist.evaluated < hist.queued

-----------------------------------------------------------------------------
(* One stage per tick                                                      *)

\* C21: a client advances at most one stage per tick: an evaluation pops
\* one event of the queue the tick started with and enqueues at most one
\* event, into the new queue only, so the evaluations of a tick are those
\* of the events queued when it started; the new queue becomes the queue
\* only when the tick ends and is evaluated at the next tick, so a
\* successor drawn with duration 0 waits until t + 1; and the processing
\* of a tick always terminates.
C21_OneStagePerTick ==
    /\ [][/\ (frame.pc = "process" /\ sim.events # <<>>) =>
                 /\ sim'.events = Tail(sim.events)
                 /\ Len(frame'.new_events) \in
                       {Len(frame.new_events), Len(frame.new_events) + 1}
                 /\ frame'.tick = frame.tick
          /\ (frame'.pc = "process") =>
                 hist'.evaluated + Len(sim'.events) = hist'.queued
          /\ (frame.pc = "process" /\ frame'.pc = "log") =>
                 /\ sim'.events = frame.new_events
                 /\ frame'.tick = frame.tick
          /\ (frame.pc = "log") =>
                 /\ sim'.events = sim.events
                 /\ frame'.tick = frame.tick + 1
                 /\ frame'.pc = "loop"]_vars
    /\ (frame.pc = "process") ~> (frame.pc \in {"log", "panic"})

\* a tick has ended with a worker's walk of duration 0 granted in it: the
\* event is due already and waits in the queue for the next tick
C21_Witness ==
    /\ frame.pc = "log"
    /\ \E i \in 1 .. Len(sim.events) :
          /\ ~hist.tags[i].same
          /\ sim.events[i].type = "WorkerWalkingDance"
          /\ sim.events[i].free_worker_time = frame.tick

\* C22: the arrival generated at tick t stands last in the queue and is
\* evaluated after every event already queued, so it can take a table
\* returned during tick t: an arrival is turned away only if
\* available_tables is 0 once all earlier-queued events of the tick have
\* been evaluated, and is seated otherwise.
C22_ArrivalEvaluatedLast ==
    [][/\ (frame'.pc = "process") =>
              \A i \in 1 .. Len(sim'.events) :
                 sim'.events[i].type = "Enter" => i = Len(sim'.events)
       /\ Evaluating("Enter") =>
              /\ Len(sim.events) = 1
              /\ hist.evaluated = hist.queued - 1
              /\ (sim'.immediately_left_clients_count
                     # sim.immediately_left_clients_count)
                   <=> sim.available_tables = 0
              /\ sim.available_tables > 0 =>
                   /\ sim'.available_tables = sim.available_tables - 1
                   /\ Len(frame'.new_events) = Len(frame.new_events) + 1
       /\ (frame.pc = "process"
             /\ sim'.immediately_left_clients_count
                  # sim.immediately_left_clients_count) =>
              /\ Evaluating("Enter")
              /\ sim.available_tables = 0]_vars

\* an arrival has just been seated in a tick that began with every table
\* occupied: it took a table returned earlier in the same tick
C22_Witness ==
    /\ frame.pc = "process"
    /\ hist.last.type = "Enter"
    /\ hist.last.outcome = "next"
    /\ sim.config.tables > 0
    /\ hist.queued - 1 = sim.config.tables
    /\ hist.evaluated = hist.queued

-----------------------------------------------------------------------------
(* Client accounting                                                       *)

\* the clients the three counters and the occupied tables account for
Accounted ==
    sim.immediately_left_clients_count + sim.not_dispatched_clients
      + sim.dispatched_clients_count
      + (sim.config.tables - sim.available_tables)

\* C23: client accounting: in a Simulation that was never reset, after
\* every tick the number of arrivals generated so far is
\* immediately-left + not-dispatched + dispatched + occupied tables.
C23_ClientAccounting ==
    (hist.resets = 0 /\ AtTickBoundary) => hist.arrivals = Accounted

=============================================================================
